---------------------------- MODULE Spec2Model ----------------------------
(***************************************************************************)
(* A model of src/todo_app.py: the TodoApp task store (the in-memory task  *)
(* list and next_id counter), its JSON backing file, and the handlers that *)
(* mutate them (add_task, mark_complete, edit_task, delete_task) as they   *)
(* are driven by TodoApp.run.                                              *)
(*                                                                         *)
(* Text is a sequence of one-character strings, so that str.strip, int()   *)
(* and strptime are computed on the characters.  An Optional[str] field is *)
(* None (the empty tuple) or Some(text) (a one-element tuple).  The emoji  *)
(* prefixes of the Priority and Status values are left out of the labels.  *)
(* The read-only handlers (list_tasks, show_statistics, show_menu) change  *)
(* no state and are not modelled.                                          *)
(***************************************************************************)
EXTENDS Integers, Sequences, FiniteSets, TLC

VARIABLES
    tasks,      \* TodoApp.tasks: the list of Task records, in insertion order
    next_id,    \* TodoApp.next_id
    disk,       \* the backing file tasks.json
    running,    \* TRUE while TodoApp.run is in its loop
    last,       \* history: the last handler that ran, its inputs and its outcome
    issued,     \* history: the ids of all tasks this TodoApp instance has held
    faults      \* history: how many storage failures and crashes have happened

vars == <<tasks, next_id, disk, running, last, issued, faults>>

(***************************************************************************)
(* Bounds of the model.                                                    *)
(***************************************************************************)
MaxId == 2
MaxFaults == 1

(***************************************************************************)
(* Text.                                                                   *)
(***************************************************************************)
EMPTY == << >>

Whitespace == {" "}

RECURSIVE LStrip(_)
LStrip(s) ==
    IF s # EMPTY /\ Head(s) \in Whitespace THEN LStrip(Tail(s)) ELSE s

RECURSIVE RStrip(_)
RStrip(s) ==
    IF s # EMPTY /\ s[Len(s)] \in Whitespace
    THEN RStrip(SubSeq(s, 1, Len(s) - 1))
    ELSE s

Strip(s) == RStrip(LStrip(s))

Lower(s) == [i \in 1..Len(s) |-> IF s[i] = "Y" THEN "y" ELSE IF s[i] = "N" THEN "n" ELSE s[i]]

Digits == {"0", "1", "2", "3", "4", "5", "6", "7", "8", "9"}

DigitChar == <<"0", "1", "2", "3", "4", "5", "6", "7", "8", "9">>

DigitVal(c) == (CHOOSE i \in 1..10 : DigitChar[i] = c) - 1

AllDigits(s) == s # EMPTY /\ \A i \in 1..Len(s) : s[i] \in Digits

RECURSIVE DecimalValue(_)
DecimalValue(s) ==
    IF s = EMPTY THEN 0
    ELSE 10 * DecimalValue(SubSeq(s, 1, Len(s) - 1)) + DigitVal(s[Len(s)])

\* int(text): surrounding whitespace is ignored, one optional sign, then
\* decimal digits; anything else is a ValueError (ok = FALSE).
ParseInt(s) ==
    LET t == Strip(s)
        signed == t # EMPTY /\ Head(t) \in {"+", "-"}
        body == IF signed THEN Tail(t) ELSE t
    IN  IF AllDigits(body)
        THEN [ok |-> TRUE,
              val |-> IF signed /\ Head(t) = "-" THEN 0 - DecimalValue(body)
                      ELSE DecimalValue(body)]
        ELSE [ok |-> FALSE, val |-> 0]

(***************************************************************************)
(* Optional values.                                                        *)
(***************************************************************************)
None == << >>

Some(x) == <<x>>

(***************************************************************************)
(* class Priority, class Status.                                           *)
(***************************************************************************)
LOW == <<"L", "o", "w">>
MEDIUM == <<"M", "e", "d", "i", "u", "m">>
HIGH == <<"H", "i", "g", "h">>
URGENT == <<"U", "r", "g", "e", "n", "t">>

\* list(Priority)
PriorityList == <<LOW, MEDIUM, HIGH, URGENT>>

PENDING == <<"P", "e", "n", "d", "i", "n", "g">>
COMPLETED == <<"C", "o", "m", "p", "l", "e", "t", "e", "d">>

GENERAL == <<"G", "e", "n", "e", "r", "a", "l">>

\* lst[i] for a Python list: a negative index counts from the end, and an
\* index outside -len..len-1 is an IndexError (ok = FALSE).
PyIndex(lst, i) ==
    LET n == Len(lst)
        j == IF i < 0 THEN i + n ELSE i
    IN  IF j >= 0 /\ j < n THEN [ok |-> TRUE, val |-> lst[j + 1]]
        ELSE [ok |-> FALSE, val |-> EMPTY]

\* int(text) followed by list(Priority)[priority_choice - 1].value, under
\* the handler's `except (ValueError, IndexError)`.
PriorityChoice(text) ==
    LET n == ParseInt(text)
    IN  IF ~n.ok THEN [ok |-> FALSE, val |-> EMPTY]
        ELSE PyIndex(PriorityList, n.val - 1)

(***************************************************************************)
(* datetime.datetime.strptime(text, "%Y-%m-%d"): whether it parses.        *)
(***************************************************************************)
RECURSIVE SplitOn(_, _)
SplitOn(s, c) ==
    IF \A i \in 1..Len(s) : s[i] # c THEN <<s>>
    ELSE LET k == CHOOSE i \in 1..Len(s) : s[i] = c /\ \A j \in 1..(i - 1) : s[j] # c
         IN  <<SubSeq(s, 1, k - 1)>> \o SplitOn(SubSeq(s, k + 1, Len(s)), c)

IsLeap(y) == (y % 4 = 0 /\ y % 100 # 0) \/ y % 400 = 0

DaysIn(y, m) ==
    IF m = 2 THEN (IF IsLeap(y) THEN 29 ELSE 28)
    ELSE IF m \in {4, 6, 9, 11} THEN 30 ELSE 31

ValidDate(s) ==
    LET p == SplitOn(s, "-")
    IN  /\ Len(p) = 3
        /\ AllDigits(p[1]) /\ Len(p[1]) = 4
        /\ AllDigits(p[2]) /\ Len(p[2]) \in {1, 2}
        /\ AllDigits(p[3]) /\ Len(p[3]) \in {1, 2}
        /\ LET y == DecimalValue(p[1])
               m == DecimalValue(p[2])
               d == DecimalValue(p[3])
           IN  y >= 1 /\ m \in 1..12 /\ d >= 1 /\ d <= DaysIn(y, m)


(***************************************************************************)
(* class Task, and the JSON document of the backing file.  A JSON scalar   *)
(* is a record [t, s, n]: its type, its text when a string, its value when *)
(* a number.  A JSON object is a function from its keys to scalars.        *)
(***************************************************************************)
TaskFields ==
    {"id", "title", "description", "priority", "status", "category",
     "created_at", "due_date", "completed_at"}

\* the fields of the dataclass that have no default
RequiredFields == TaskFields \ {"due_date", "completed_at"}

JStr(s) == [t |-> "string", s |-> s, n |-> 0]
JInt(n) == [t |-> "number", s |-> EMPTY, n |-> n]
JNull == [t |-> "null", s |-> EMPTY, n |-> 0]

\* a json.dump that writes None as the empty string
JsonOfOptionalAsText(v) == IF v = None THEN JStr(EMPTY) ELSE JStr(v[1])

\* json.dump of an Optional[str]: None is written as null
JsonOfOptional(v) == IF v = None THEN JNull ELSE JStr(v[1])

\* json.load of an Optional[str]: null is read as None
OptionalOfJson(j) == IF j.t = "null" THEN None ELSE Some(j.s)

\* asdict(task), as json.dump writes it
TaskToJson(task) ==
    [id |-> JInt(task.id),
     title |-> JStr(task.title),
     description |-> JStr(task.description),
     priority |-> JStr(task.priority),
     status |-> JStr(task.status),
     category |-> JStr(task.category),
     created_at |-> JStr(task.created_at),
     due_date |-> JsonOfOptional(task.due_date),
     completed_at |-> JsonOfOptional(task.completed_at)]

\* Task(**obj) raises TypeError on an unknown key and on a missing field
\* that has no default
TaskAccepts(obj) ==
    /\ DOMAIN obj \subseteq TaskFields
    /\ RequiredFields \subseteq DOMAIN obj

\* Task(**obj), for an object Task accepts
TaskFromJson(obj) ==
    [id |-> obj.id.n,
     title |-> obj.title.s,
     description |-> obj.description.s,
     priority |-> obj.priority.s,
     status |-> obj.status.s,
     category |-> obj.category.s,
     created_at |-> obj.created_at.s,
     due_date |-> IF "due_date" \in DOMAIN obj
                  THEN OptionalOfJson(obj.due_date) ELSE None,
     completed_at |-> IF "completed_at" \in DOMAIN obj
                      THEN OptionalOfJson(obj.completed_at) ELSE None]

\* The backing file: absent, text that json.load rejects (an empty or partly
\* written file), or a JSON object with or without the keys tasks, next_id.
Absent == [kind |-> "absent"]
Unparsable == [kind |-> "unparsable"]
JsonFile(doc) == [kind |-> "json", doc |-> doc]

\* the `data` dictionary of save_tasks
Serialize(ts, n) ==
    [has_tasks |-> TRUE,
     tasks |-> [i \in 1..Len(ts) |-> TaskToJson(ts[i])],
     has_next_id |-> TRUE,
     next_id |-> JInt(n)]

\* load_tasks as __init__ calls it, with tasks = [] and next_id = 1 set just
\* before: the tasks and next_id it leaves, and whether an exception leaves
\* it (JSONDecodeError is caught; the TypeError of Task(**task) is not).
load_tasks(file) ==
    IF file.kind = "absent" THEN [tasks |-> << >>, next_id |-> 1, raised |-> FALSE]
    ELSE IF file.kind = "unparsable" THEN [tasks |-> << >>, next_id |-> 1, raised |-> FALSE]
    ELSE LET data == file.doc
             objs == IF data.has_tasks THEN data.tasks ELSE << >>
         IN  IF \E i \in 1..Len(objs) : ~TaskAccepts(objs[i])
             THEN [tasks |-> << >>, next_id |-> 1, raised |-> TRUE]
             ELSE [tasks |-> [i \in 1..Len(objs) |-> TaskFromJson(objs[i])],
                   next_id |-> IF data.has_next_id THEN data.next_id.n ELSE 1,
                   raised |-> FALSE]

\* What can happen to one call of save_tasks.  open(..., 'w') truncates the
\* file and json.dump then writes it piece by piece.
SaveOutcomes ==
    {"ok",              \* the file is written and closed
     "open_failed",     \* open raises OSError: the file is untouched
     "write_failed",    \* a write raises OSError after the truncation
     "crash_at_open",   \* the process dies as save_tasks begins
     "crash_in_write",  \* the process dies between the truncation and the last write
     "crash_at_close"}  \* the process dies when the file is complete

Raises(o) == o \in {"open_failed", "write_failed"}
Crashes(o) == o \in {"crash_at_open", "crash_in_write", "crash_at_close"}

\* the backing file after save_tasks, by outcome
save_tasks(file, ts, n, o) ==
    IF o \in {"ok", "crash_at_close"} THEN JsonFile(Serialize(ts, n))
    ELSE IF o \in {"open_failed", "crash_at_open"} THEN file
    ELSE Unparsable

(***************************************************************************)
(* The handlers' building blocks.                                          *)
(***************************************************************************)
\* Task(id=self.next_id, ..., status=Status.PENDING.value, ...) of add_task;
\* completed_at keeps its default
NewTask(id, title, description, priority, category, now, due_date) ==
    [id |-> id,
     title |-> title,
     description |-> description,
     priority |-> priority,
     status |-> PENDING,
     category |-> category,
     created_at |-> now,
     due_date |-> due_date,
     completed_at |-> None]

\* an add_task that forgets self.next_id += 1
NoBumpId(n) == n

\* self.next_id += 1
BumpId(n) == n + 1

\* a lookup that falls back to the first task when no task has the id
FindTaskOrFirst(ts, id) ==
    IF \E i \in 1..Len(ts) : ts[i].id = id
    THEN CHOOSE i \in 1..Len(ts) : ts[i].id = id /\ \A j \in 1..(i - 1) : ts[j].id # id
    ELSE IF ts # << >> THEN 1 ELSE 0

\* next((t for t in self.tasks if t.id == task_id), None): the position of
\* the first task with that id, 0 for None
FindTask(ts, id) ==
    IF \E i \in 1..Len(ts) : ts[i].id = id
    THEN CHOOSE i \in 1..Len(ts) : ts[i].id = id /\ \A j \in 1..(i - 1) : ts[j].id # id
    ELSE 0

\* a mark_complete without its `already completed` test
NeverCompleted(task) == FALSE

\* task.status == Status.COMPLETED.value
AlreadyCompleted(task) == task.status = COMPLETED

\* a mark_complete that sets the status and forgets completed_at
CompleteWithoutStamp(task, now) == [task EXCEPT !.status = COMPLETED]

\* task.status = Status.COMPLETED.value; task.completed_at = now
Complete(task, now) == [task EXCEPT !.status = COMPLETED, !.completed_at = Some(now)]

\* self.tasks.remove(task): the first element equal to task goes
RemoveTask(ts, task) ==
    LET k == CHOOSE i \in 1..Len(ts) : ts[i] = task /\ \A j \in 1..(i - 1) : ts[j] # task
    IN  SubSeq(ts, 1, k - 1) \o SubSeq(ts, k + 1, Len(ts))

\* the field assignments of edit_task, each under its `if`
EditFields(task, inp) ==
    LET new_title == Strip(inp.title)
        new_description == Strip(inp.description)
        priority_input == Strip(inp.priority)
        choice == PriorityChoice(priority_input)
        new_category == Strip(inp.category)
    IN  [task EXCEPT
            !.title = IF new_title # EMPTY THEN new_title ELSE @,
            !.description = IF new_description # EMPTY THEN new_description ELSE @,
            !.priority = IF priority_input # EMPTY /\ choice.ok THEN choice.val ELSE @,
            !.category = IF new_category # EMPTY THEN new_category ELSE @]

(***************************************************************************)
(* A handler's inputs are the texts typed at its prompts; a prompt it does *)
(* not show holds the empty text.                                          *)
(***************************************************************************)
Input(id, title, description, priority, category, due_date, confirm) ==
    [id |-> id, title |-> title, description |-> description, priority |-> priority,
     category |-> category, due_date |-> due_date, confirm |-> confirm]

NoInput == Input(EMPTY, EMPTY, EMPTY, EMPTY, EMPTY, EMPTY, EMPTY)

Record(op, inp, result, saved, o, interrupted) ==
    [op |-> op, input |-> inp, result |-> result, saved |-> saved, outcome |-> o,
     interrupted |-> interrupted]

\* the handler returns without having changed anything
Finish(op, inp, result) ==
    /\ last' = Record(op, inp, result, FALSE, "none", None)
    /\ UNCHANGED <<tasks, next_id, disk, running, issued, faults>>

\* the outcomes of save_tasks the model still allows
Outcomes(allowed) == IF faults < MaxFaults THEN allowed ELSE allowed \cap {"ok"}

\* the handler has changed the store in memory to (ts, n) and calls
\* save_tasks.  An OSError of save_tasks reaches `except Exception` in run,
\* which prints it and goes on; a crash ends the process and its memory.
Commit(op, inp, result, ts, n, iss, allowed) ==
    \E o \in Outcomes(allowed) :
        /\ disk' = save_tasks(disk, ts, n, o)
        /\ IF Crashes(o)
           THEN /\ tasks' = << >>
                /\ next_id' = 1
                /\ issued' = {}
                /\ running' = FALSE
           ELSE /\ tasks' = ts
                /\ next_id' = n
                /\ issued' = iss
                /\ running' = TRUE
        /\ faults' = IF o = "ok" THEN faults ELSE faults + 1
        /\ last' = Record(op, inp, result, TRUE, o,
                          IF Crashes(o)
                          THEN Some([old |-> disk, new |-> JsonFile(Serialize(ts, n))])
                          ELSE None)

(***************************************************************************)
(* The handlers.                                                           *)
(***************************************************************************)
add_task(inp, now, allowed) ==
    LET title == Strip(inp.title)
        description == Strip(inp.description)
        choice == PriorityChoice(inp.priority)
        priority == IF choice.ok THEN choice.val ELSE MEDIUM
        category == IF Strip(inp.category) # EMPTY THEN Strip(inp.category) ELSE GENERAL
        due_date_input == Strip(inp.due_date)
        due_date == IF due_date_input # EMPTY /\ ValidDate(due_date_input)
                    THEN Some(due_date_input) ELSE None
        task == NewTask(next_id, title, description, priority, category, now, due_date)
    IN  /\ running
        /\ IF title = EMPTY
           THEN Finish("add", inp, "empty_title")
           ELSE /\ next_id <= MaxId
                /\ Commit("add", inp, "added", Append(tasks, task), BumpId(next_id),
                          issued \cup {next_id}, allowed)

mark_complete(inp, now, allowed) ==
    LET task_id == ParseInt(inp.id)
        k == FindTask(tasks, task_id.val)
    IN  /\ running
        /\ IF ~\E i \in 1..Len(tasks) : tasks[i].status # COMPLETED
           THEN Finish("mark", inp, "nothing_pending")
           ELSE IF ~task_id.ok THEN Finish("mark", inp, "invalid_id")
           ELSE IF k = 0 THEN Finish("mark", inp, "not_found")
           ELSE IF AlreadyCompleted(tasks[k]) THEN Finish("mark", inp, "already_completed")
           ELSE Commit("mark", inp, "completed",
                       [tasks EXCEPT ![k] = Complete(@, now)], next_id, issued, allowed)

delete_task(inp, allowed) ==
    LET task_id == ParseInt(inp.id)
        k == FindTask(tasks, task_id.val)
    IN  /\ running
        /\ IF tasks = << >> THEN Finish("delete", inp, "no_tasks")
           ELSE IF ~task_id.ok THEN Finish("delete", inp, "invalid_id")
           ELSE IF k = 0 THEN Finish("delete", inp, "not_found")
           ELSE IF Lower(inp.confirm) # <<"y">> THEN Finish("delete", inp, "cancelled")
           ELSE Commit("delete", inp, "deleted",
                       RemoveTask(tasks, tasks[k]), next_id, issued, allowed)

edit_task(inp, allowed) ==
    LET task_id == ParseInt(inp.id)
        k == FindTask(tasks, task_id.val)
    IN  /\ running
        /\ IF tasks = << >> THEN Finish("edit", inp, "no_tasks")
           ELSE IF ~task_id.ok THEN Finish("edit", inp, "invalid_id")
           ELSE IF k = 0 THEN Finish("edit", inp, "not_found")
           ELSE Commit("edit", inp, "updated",
                       [tasks EXCEPT ![k] = EditFields(@, inp)], next_id, issued, allowed)

\* choice 9 or KeyboardInterrupt in run: the loop ends and the process with it
Exit ==
    /\ running
    /\ running' = FALSE
    /\ tasks' = << >>
    /\ next_id' = 1
    /\ issued' = {}
    /\ last' = Record("exit", NoInput, "exited", FALSE, "none", None)
    /\ UNCHANGED <<disk, faults>>

\* app = TodoApp(); app.run(): __init__ sets tasks = [] and next_id = 1 and
\* calls load_tasks; an exception of load_tasks ends the program
Start ==
    LET r == load_tasks(disk)
    IN  /\ ~running
        /\ tasks' = r.tasks
        /\ next_id' = r.next_id
        /\ issued' = {r.tasks[i].id : i \in 1..Len(r.tasks)}
        /\ running' = ~r.raised
        /\ last' = Record("load", NoInput, IF r.raised THEN "raised" ELSE "loaded",
                          FALSE, "none", None)
        /\ UNCHANGED <<disk, faults>>

(***************************************************************************)
(* Inputs.                                                                 *)
(***************************************************************************)
\* what strftime("%Y-%m-%d %H:%M:%S") returns at two instants
Morning ==
    <<"2", "0", "2", "4", "-", "0", "1", "-", "0", "1", " ",
      "0", "9", ":", "0", "0", ":", "0", "0">>
Evening ==
    <<"2", "0", "2", "4", "-", "0", "1", "-", "0", "1", " ",
      "2", "1", ":", "3", "0", ":", "0", "0">>

\* task ids as typed: every id the bounds allow, and a word
IdInputs == {<<DigitChar[i + 1]>> : i \in 1..MaxId} \cup {<<"x">>}

\* priority selections as typed: the four choices, 0, negative numbers,
\* numbers above 4, a word
PriorityInputs ==
    {<<"1">>, <<"2">>, <<"3">>, <<"4">>, <<"0">>, <<"-", "1">>, <<"-", "4">>,
     <<"5">>, <<"a">>}

\* due dates as typed: none, a leap day, month 13
DueInputs ==
    {EMPTY,
     <<"2", "0", "2", "4", "-", "0", "2", "-", "2", "9">>,
     <<"2", "0", "2", "4", "-", "1", "3", "-", "9", "9">>}

\* add_task: an empty and a blank title, and a title with a priority and a
\* due date from the given selections
AddInputs(priorities, dues) ==
    {Input(EMPTY, t, EMPTY, <<"3">>, EMPTY, EMPTY, EMPTY) : t \in {EMPTY, <<" ">>}}
    \cup {Input(EMPTY, <<" ", "a", " ">>, <<"d", " ">>, p, EMPTY, d, EMPTY) :
            p \in priorities, d \in dues}

\* edit_task: a new title and category with a priority from the given
\* selections, Enter at the description
EditInputs(priorities) ==
    {Input(i, <<"b", " ">>, EMPTY, p, <<" ", "w">>, EMPTY, EMPTY) :
        i \in IdInputs, p \in priorities}

MarkInputs == {Input(i, EMPTY, EMPTY, EMPTY, EMPTY, EMPTY, EMPTY) : i \in IdInputs}

\* delete_task: confirmed for every id, declined for id 1
DeleteInputs ==
    {Input(i, EMPTY, EMPTY, EMPTY, EMPTY, EMPTY, <<"Y">>) : i \in IdInputs}
    \cup {Input(<<"1">>, EMPTY, EMPTY, EMPTY, EMPTY, EMPTY, <<"n">>)}

(***************************************************************************)
(* The menu choices of run, over given inputs and storage outcomes.        *)
(***************************************************************************)
AddTask(inputs, times, outcomes) ==
    \E inp \in inputs, now \in times : add_task(inp, now, outcomes)

MarkComplete(times, outcomes) ==
    \E inp \in MarkInputs, now \in times : mark_complete(inp, now, outcomes)

EditTask(inputs, outcomes) == \E inp \in inputs : edit_task(inp, outcomes)

DeleteTask(outcomes) == \E inp \in DeleteInputs : delete_task(inp, outcomes)

(***************************************************************************)
(* Spec: the program from its first launch, with no backing file, through  *)
(* the menu loop, exits, storage failures, crashes and relaunches.         *)
(***************************************************************************)
Init ==
    /\ tasks = << >>
    /\ next_id = 1
    /\ disk = Absent
    /\ running = TRUE
    /\ last = Record("load", NoInput, "loaded", FALSE, "none", None)
    /\ issued = {}
    /\ faults = 0

Next ==
    \/ AddTask(AddInputs({<<"3">>}, {EMPTY}), {Morning}, SaveOutcomes)
    \/ MarkComplete({Morning, Evening}, SaveOutcomes)
    \/ EditTask(EditInputs({EMPTY}), SaveOutcomes)
    \/ DeleteTask(SaveOutcomes)
    \/ Exit
    \/ Start

Spec == Init /\ [][Next]_vars

(***************************************************************************)
(* SpecFields: the same program with the storage always working, and with  *)
(* tasks that differ in every field add_task and mark_complete can vary.   *)
(***************************************************************************)
NextFields ==
    \/ AddTask(AddInputs({<<"3">>}, DueInputs), {Morning, Evening}, {"ok"})
    \/ MarkComplete({Morning, Evening}, {"ok"})
    \/ EditTask(EditInputs({EMPTY}), {"ok"})
    \/ DeleteTask({"ok"})
    \/ Exit
    \/ Start

SpecFields == Init /\ [][NextFields]_vars

(***************************************************************************)
(* SpecPriority: add_task and edit_task over every kind of priority        *)
(* selection, the storage always working.                                  *)
(***************************************************************************)
NextPriority ==
    \/ AddTask(AddInputs(PriorityInputs, {EMPTY}), {Morning}, {"ok"})
    \/ EditTask(EditInputs(PriorityInputs \cup {EMPTY}), {"ok"})
    \/ DeleteTask({"ok"})

SpecPriority == Init /\ [][NextPriority]_vars

(***************************************************************************)
(* SpecLoad: the launch of the program over backing files of every kind:   *)
(* none, text that is no JSON, and documents whose records have all the    *)
(* fields of Task, leave out the two with defaults, leave out the title,   *)
(* or carry a key Task does not have.                                      *)
(***************************************************************************)
FullObject(id) ==
    TaskToJson(NewTask(id, <<"a">>, EMPTY, MEDIUM, GENERAL, Morning, None))

ShortObject(id) == [k \in RequiredFields |-> FullObject(id)[k]]

UntitledObject(id) == [k \in TaskFields \ {"title"} |-> FullObject(id)[k]]

AnnotatedObject(id) ==
    [k \in TaskFields \cup {"notes"} |->
        IF k = "notes" THEN JStr(<<"n">>) ELSE FullObject(id)[k]]

FileObjects == {FullObject(1), ShortObject(2), UntitledObject(3), AnnotatedObject(4)}

ObjectLists ==
    {<< >>} \cup {<<a>> : a \in FileObjects} \cup {<<a, b>> : a, b \in FileObjects}

Documents ==
    {[has_tasks |-> TRUE, tasks |-> l, has_next_id |-> TRUE, next_id |-> JInt(n)] :
        l \in ObjectLists, n \in {1, 5}}
    \cup {[has_tasks |-> TRUE, tasks |-> l, has_next_id |-> FALSE, next_id |-> JNull] :
            l \in ObjectLists}
    \cup {[has_tasks |-> FALSE, tasks |-> << >>, has_next_id |-> TRUE, next_id |-> JInt(5)]}

Files == {Absent, Unparsable} \cup {JsonFile(d) : d \in Documents}

InitLoad ==
    /\ tasks = << >>
    /\ next_id = 1
    /\ disk \in Files
    /\ running = FALSE
    /\ last = Record("none", NoInput, "none", FALSE, "none", None)
    /\ issued = {}
    /\ faults = 0

NextLoad == Start

SpecLoad == InitLoad /\ [][NextLoad]_vars

(***************************************************************************)
(* What the claims are stated with.                                        *)
(***************************************************************************)
HasId(ts, id) == \E i \in 1..Len(ts) : ts[i].id = id

TaskById(ts, id) == ts[CHOOSE i \in 1..Len(ts) : ts[i].id = id]

\* the backing file that holds exactly the store in memory
Stored == JsonFile(Serialize(tasks, next_id))

\* the id typed at the prompt of the handler a step has run
TypedId == ParseInt(last'.input.id)

\* a priority selection that is one of the choices 1..4
ValidSelection(text) == ParseInt(text).ok /\ ParseInt(text).val \in 1..4

\* a record of a JSON document that is not a Task
NotATask(obj) == ~(RequiredFields \subseteq DOMAIN obj /\ DOMAIN obj \subseteq TaskFields)

Malformed(file) ==
    \/ file.kind = "unparsable"
    \/ /\ file.kind = "json"
       /\ \E i \in 1..Len(file.doc.tasks) : NotATask(file.doc.tasks[i])

(***************************************************************************)
(* C1.  Within one TodoApp instance the ids of the tasks are distinct and  *)
(* below next_id, next_id never decreases, and a task that enters the      *)
(* store gets an id above every id the instance has held, the ids of       *)
(* deleted tasks included.                                                 *)
(***************************************************************************)
IdsFresh ==
    /\ \A i, j \in 1..Len(tasks) : i # j => tasks[i].id # tasks[j].id
    /\ \A i \in 1..Len(tasks) : tasks[i].id < next_id /\ tasks[i].id \in issued
    /\ \A d \in issued : d < next_id

IdsStep ==
    (running /\ running') =>
        /\ next_id' >= next_id
        /\ issued \subseteq issued'
        /\ \A i \in 1..Len(tasks') :
              ~HasId(tasks, tasks'[i].id) =>
                  /\ last'.op = "add"
                  /\ i = Len(tasks')
                  /\ \A d \in issued : tasks'[i].id > d

C1_IdsStrictlyIncrease == []IdsFresh /\ [][IdsStep]_vars

\* a deleted id is in the past: task 1 was deleted, then add_task gave id 2
C1_Witness ==
    /\ running
    /\ last.op = "add" /\ last.result = "added"
    /\ 1 \in issued /\ ~HasId(tasks, 1)
    /\ HasId(tasks, 2)

(***************************************************************************)
(* C2.  load_tasks on a backing file that is no JSON, or whose document    *)
(* has a record that is not a Task, ends with no tasks and next_id = 1 and *)
(* raises nothing.                                                         *)
(***************************************************************************)
C2_MalformedFileLoadsEmpty ==
    (last.op = "load" /\ Malformed(disk)) =>
        /\ last.result = "loaded"
        /\ running
        /\ tasks = << >>
        /\ next_id = 1

(***************************************************************************)
(* C3.  After a crash during save_tasks the backing file is the complete   *)
(* file of before the save or the complete file the save was writing.      *)
(***************************************************************************)
C3_CrashKeepsOldOrNew ==
    last.interrupted # None =>
        \/ disk = last.interrupted[1].old
        \/ disk = last.interrupted[1].new

(***************************************************************************)
(* C4.  add_task stores the priority of the selection when the selection   *)
(* is one of 1..4, and Medium for every other selection.                   *)
(***************************************************************************)
C4_InvalidSelectionGivesMedium ==
    (running /\ last.op = "add" /\ last.result = "added") =>
        LET task == tasks[Len(tasks)]
        IN  IF ValidSelection(last.input.priority)
            THEN task.priority = PriorityList[ParseInt(last.input.priority).val]
            ELSE task.priority = MEDIUM

(***************************************************************************)
(* C5.  edit_task with a priority selection that is typed and is not one   *)
(* of 1..4 leaves the priority of the task as it was, sets the title and   *)
(* the category that were typed, and saves.                                *)
(***************************************************************************)
InvalidPriorityEdit ==
    (/\ running
     /\ last'.op = "edit" /\ last'.result = "updated"
     /\ Strip(last'.input.priority) # EMPTY
     /\ ~ValidSelection(last'.input.priority)) =>
        LET old == TaskById(tasks, TypedId.val)
            new == TaskById(tasks', TypedId.val)
        IN  /\ new.priority = old.priority
            /\ new.title = Strip(last'.input.title)
            /\ new.category = Strip(last'.input.category)
            /\ disk' = JsonFile(Serialize(tasks', next_id'))

C5_InvalidEditKeepsPriority == [][InvalidPriorityEdit]_vars

(***************************************************************************)
(* C6.  mark_complete on a task that is not Completed makes it Completed,  *)
(* stamps completed_at with a non-empty text and calls save_tasks, which   *)
(* leaves the store on file when it succeeds; mark_complete on a Completed *)
(* task changes neither the store nor the file and calls no save_tasks;    *)
(* and whatever runs in between, a Completed task that is still in the     *)
(* store is Completed with the same completed_at.                          *)
(***************************************************************************)
MarkStep ==
    (running /\ last'.op = "mark" /\ TypedId.ok /\ HasId(tasks, TypedId.val)) =>
        IF TaskById(tasks, TypedId.val).status = COMPLETED
        THEN /\ UNCHANGED <<tasks, next_id, disk>>
             /\ ~last'.saved
        ELSE /\ last'.saved
             /\ running' =>
                    LET new == TaskById(tasks', TypedId.val)
                    IN  /\ new.status = COMPLETED
                        /\ new.completed_at # None
                        /\ new.completed_at[1] # EMPTY
             /\ last'.outcome = "ok" => disk' = JsonFile(Serialize(tasks', next_id'))

StaysCompleted ==
    (running /\ running') =>
        \A i \in 1..Len(tasks) :
            (tasks[i].status = COMPLETED /\ HasId(tasks', tasks[i].id)) =>
                LET new == TaskById(tasks', tasks[i].id)
                IN  /\ new.status = COMPLETED
                    /\ new.completed_at = tasks[i].completed_at

C6_CompleteOnceThenNoOp == [][MarkStep /\ StaysCompleted]_vars

\* mark_complete has just found its task Completed, beside a Pending one
C6_Witness ==
    /\ running
    /\ last.op = "mark" /\ last.result = "already_completed"
    /\ Len(tasks) = 2
    /\ \E i \in 1..2 : tasks[i].status = PENDING
    /\ TaskById(tasks, ParseInt(last.input.id).val).completed_at # None

(***************************************************************************)
(* C7.  add_task with a title that is empty once stripped, and             *)
(* mark_complete, edit_task and delete_task with an id no task has, change *)
(* neither tasks nor next_id nor the backing file.                         *)
(***************************************************************************)
Rejected ==
    \/ last'.op = "add" /\ Strip(last'.input.title) = EMPTY
    \/ /\ last'.op \in {"mark", "edit", "delete"}
       /\ TypedId.ok
       /\ ~HasId(tasks, TypedId.val)

C7_RejectedChangesNothing ==
    [][(running /\ Rejected) => (UNCHANGED <<tasks, next_id, disk>> /\ ~last'.saved)]_vars

\* delete_task has just been given an id that no task of a non-empty store has
C7_Witness ==
    /\ running
    /\ last.op = "delete" /\ last.result = "not_found"
    /\ tasks # << >>
    /\ disk = Stored

(***************************************************************************)
(* C8.  save_tasks followed by load_tasks gives back the store that was    *)
(* saved: the same tasks in the same order with every field, None          *)
(* included, and the same next_id; and the store a launch has loaded is    *)
(* the store on file.                                                      *)
(***************************************************************************)
C8_SaveLoadRoundTrip ==
    running =>
        /\ load_tasks(save_tasks(disk, tasks, next_id, "ok"))
              = [tasks |-> tasks, next_id |-> next_id, raised |-> FALSE]
        /\ (last.op = "load" /\ disk.kind = "json") => disk = Stored

\* a launch has loaded two tasks: one with neither date, one with both
C8_Witness ==
    /\ running
    /\ last.op = "load"
    /\ Len(tasks) = 2
    /\ \E i \in 1..2 : tasks[i].due_date = None /\ tasks[i].completed_at = None
    /\ \E i \in 1..2 : tasks[i].due_date # None /\ tasks[i].completed_at # None

(***************************************************************************)
(* C9.  Every task has completed_at set exactly when its status is         *)
(* Completed: a task enters the store with no completed_at, and            *)
(* completed_at changes only when mark_complete makes a task Completed     *)
(* that was not.                                                           *)
(***************************************************************************)
CompletedIffStamped ==
    \A i \in 1..Len(tasks) :
        (tasks[i].completed_at # None) <=> (tasks[i].status = COMPLETED)

StampStep ==
    (running /\ running') =>
        \A i \in 1..Len(tasks') :
            LET new == tasks'[i]
            IN  IF HasId(tasks, new.id)
                THEN LET old == TaskById(tasks, new.id)
                     IN  new.completed_at # old.completed_at =>
                            /\ last'.op = "mark"
                            /\ old.status # COMPLETED /\ old.completed_at = None
                            /\ new.status = COMPLETED
                ELSE new.completed_at = None

C9_CompletedAtIffCompleted == []CompletedIffStamped /\ [][StampStep]_vars

\* edit_task has just updated a Completed task, beside a Pending one
C9_Witness ==
    /\ running
    /\ last.op = "edit" /\ last.result = "updated"
    /\ TaskById(tasks, ParseInt(last.input.id).val).status = COMPLETED
    /\ TaskById(tasks, ParseInt(last.input.id).val).completed_at # None
    /\ \E i \in 1..Len(tasks) : tasks[i].status = PENDING

(***************************************************************************)
(* C10.  When a handler that called save_tasks has returned, the backing   *)
(* file holds exactly the tasks and next_id in memory, also when           *)
(* save_tasks failed.                                                      *)
(***************************************************************************)
C10_FileHoldsMemory == (running /\ last.saved) => disk = Stored

=============================================================================
